---- MODULE Spec2Model ----
(***************************************************************************)
(* A model of eDashboard: the CJ access-token cache, the CJ cost walk, the *)
(* Shopify fetch, build_sales_aggregates and the dashboard handler.        *)
(*                                                                         *)
(* Instants are integers counted in hours (token cache, Shopify orders) or *)
(* in seconds (CJ createDate); calendar days are integers, day 0 being a   *)
(* Monday.  Money amounts are integers.  Python's None and pandas' NaN are *)
(* the string "None".                                                      *)
(***************************************************************************)
EXTENDS Integers, Sequences, FiniteSets, TLC

VARIABLES
    tokenCache,   \* etl._cj_token_cache: [accessToken, expiry]
    clock,        \* what pd.Timestamp.utcnow() returns, in hours
    cjCreds,      \* CJ_EMAIL and CJ_API_KEY are both set
    lastCall,     \* the last finished _cj_get_access_token call (history)
    procs,        \* two interleaved _cj_get_access_token(force=False) invocations
    raceHist,     \* what the interleaved invocations did (history)
    walkPc,       \* fetch_cj_costs_by_day: in the loop, returned, or raised
    walkRange,    \* its start_date and end_date
    pageNum,      \* page_num
    walkRows,     \* rows
    walkFetched,  \* every item the listing has served so far (history)
    walkRequests, \* the listing requests made so far (history)
    walkResult,   \* what it returned
    dashPc,       \* where the dashboard handler (or a direct call) stands
    dashReq,      \* start, end and basis of the request
    ordersDf,     \* orders_df
    charts,       \* charts, the result of build_sales_aggregates
    dashEnv,      \* Shopify and Meta credentials set; the orders the store holds
    dashLocals,   \* the handler's locals, and the sources fetched (history)
    kpis,         \* kpis
    tableRows,    \* table_rows
    flashes       \* the notices flashed

raceVars == <<procs, raceHist>>
walkVars == <<walkPc, walkRange, pageNum, walkRows, walkFetched, walkRequests, walkResult>>

dashVars == <<dashPc, dashReq, ordersDf, charts, dashEnv, dashLocals, kpis, tableRows, flashes>>

vars == <<tokenCache, clock, cjCreds, lastCall, raceVars, walkVars, dashVars>>

\* what the sequential token calls leave alone
TokenFrame == <<raceVars, walkVars, dashVars>>
\* what the interleaved token calls leave alone
RaceFrame == <<lastCall, walkVars, dashVars>>
\* what the page walk leaves alone
WalkFrame == <<raceVars, dashVars>>
\* what a direct call of build_sales_aggregates leaves alone
AggFrame == <<tokenCache, clock, cjCreds, lastCall, raceVars, walkVars>>
\* what the dashboard handler leaves alone, the CJ fetch apart
DashFrame == <<tokenCache, clock, cjCreds, lastCall, raceVars, walkVars>>

None == "None"

(***************************************************************************)
(* The access token cache                                                  *)
(***************************************************************************)

\* The instants the clock takes and the wall-clock times a response names.
Instants == {0, 4, 12, 340}

Tokens == {"tokA", "tokB"}

\* A cached expiry: Python None, pandas NaT, or an instant.
NoExpiry == [k |-> "none", t |-> 0]
NaT == [k |-> "nat", t |-> 0]
Ts(t) == [k |-> "ts", t |-> t]

EmptyCache == [accessToken |-> None, expiry |-> NoExpiry]

\* accessTokenExpiryDate of a response: absent, unparsable, or a wall-clock
\* time with a UTC offset in hours ("2025-08-18T09:16:33+08:00").
ExpiryRaws ==
    {[k |-> "absent", wall |-> 0, off |-> 0], [k |-> "bad", wall |-> 0, off |-> 0]}
    \cup {[k |-> "ts", wall |-> w, off |-> o] : w \in {4, 344}, o \in {0, 8}}

\* a non-success answer (and the placeholder where no answer was needed)
NoResp == [ok |-> FALSE, accessToken |-> None, expiryRaw |-> [k |-> "absent", wall |-> 0, off |-> 0]]

\* What the auth endpoint may answer: a failure, or a success whose data
\* carries (or lacks) accessToken and accessTokenExpiryDate.
AuthResponses ==
    {NoResp}
    \cup {[ok |-> TRUE, accessToken |-> tk, expiryRaw |-> r] :
            tk \in Tokens \cup {None}, r \in ExpiryRaws}

\* pd.Timedelta(days=14), in hours
FallbackDays == 14
TokenFallback == FallbackDays * 24

\* pd.to_datetime(expiry_raw, utc=True, errors="coerce") if expiry_raw
\* else now + 14 days
ParseExpiry(raw, now) ==
    IF raw.k = "absent" THEN Ts(now + TokenFallback)
    ELSE IF raw.k = "bad" THEN NaT
    ELSE Ts(raw.wall - raw.off)

\* TokenTruthy with the test left out
TokenTruthyAlways(tok) == TRUE

\* _cj_token_cache["accessToken"] as a condition
TokenTruthy(tok) == tok # None

\* _cj_token_cache["expiry"] is not None
ExpirySet(e) == e.k # "none"

\* NowBefore with the comparison off by one (<= for <)
NowBeforeInclusive(now, e) == e.k = "ts" /\ now <= e.t

\* now < _cj_token_cache["expiry"]; a comparison with NaT is False
NowBefore(now, e) == e.k = "ts" /\ now < e.t

\* the condition of the early return
CacheHit(cache, now, force) ==
    /\ ~force
    /\ TokenTruthy(cache.accessToken)
    /\ ExpirySet(cache.expiry)
    /\ NowBefore(now, cache.expiry)

\* _cj_token_cache.update({...})
CacheUpdate(resp, now) ==
    [accessToken |-> resp.accessToken, expiry |-> ParseExpiry(resp.expiryRaw, now)]

NoCall == [kind |-> "none"]

\* No invocation is in flight.
RaceIdle ==
    /\ procs = <<>>
    /\ raceHist = <<>>

\* No page walk is under way.
WalkIdle ==
    /\ walkPc = "idle"
    /\ walkRange = <<>>
    /\ pageNum = 1
    /\ walkRows = <<>>
    /\ walkFetched = <<>>
    /\ walkRequests = 0
    /\ walkResult = <<>>

\* No dashboard request is being handled.
DashIdle ==
    /\ dashPc = "idle"
    /\ dashReq = <<>>
    /\ ordersDf = <<>>
    /\ charts = <<>>
    /\ dashEnv = <<>>
    /\ dashLocals = <<>>
    /\ kpis = <<>>
    /\ tableRows = <<>>
    /\ flashes = <<>>

\* _cj_get_access_token(force) run to its end with nothing interleaved, the
\* auth endpoint answering resp if it is asked: whether it returned or raised,
\* how many auth requests it made, what it returned, the cache it leaves.
TokenOutcome(cache, now, creds, force, resp) ==
    IF ~creds THEN
        [kind |-> "raised", requests |-> 0, ret |-> None, cache |-> cache]
    ELSE IF CacheHit(cache, now, force) THEN
        [kind |-> "returned", requests |-> 0, ret |-> cache.accessToken, cache |-> cache]
    ELSE IF ~resp.ok THEN
        [kind |-> "raised", requests |-> 1, ret |-> None, cache |-> cache]
    ELSE
        [kind |-> "returned", requests |-> 1, ret |-> resp.accessToken,
         cache |-> CacheUpdate(resp, now)]

\* The answers of the auth endpoint a call can meet: none is needed when
\* the call does not ask.
AuthAnswers(cache, now, creds, force) ==
    IF ~creds \/ CacheHit(cache, now, force) THEN {NoResp} ELSE AuthResponses

\* One whole call of _cj_get_access_token(force).
CjGetAccessToken(force) ==
    \E resp \in AuthAnswers(tokenCache, clock, cjCreds, force) :
        LET o == TokenOutcome(tokenCache, clock, cjCreds, force, resp)
        IN  /\ tokenCache' = o.cache
            /\ lastCall' = [kind |-> o.kind, force |-> force, now |-> clock,
                            pre |-> tokenCache, requests |-> o.requests,
                            ret |-> o.ret, resp |-> resp]
            /\ UNCHANGED <<clock, cjCreds, TokenFrame>>

\* Time passes between calls.
AdvanceClock ==
    /\ \E t \in Instants : t > clock /\ clock' = t
    /\ UNCHANGED <<tokenCache, cjCreds, lastCall, TokenFrame>>

TokenInit ==
    /\ tokenCache = EmptyCache
    /\ clock = 0
    /\ cjCreds \in BOOLEAN
    /\ lastCall = NoCall
    /\ RaceIdle
    /\ WalkIdle
    /\ DashIdle

TokenNext ==
    \/ \E force \in BOOLEAN : CjGetAccessToken(force)
    \/ AdvanceClock

SpecToken == TokenInit /\ [][TokenNext]_vars

\* The claim's own reading of "the cache holds a token and the current
\* instant is before the cached expiry".
ClaimedHit(call) ==
    /\ ~call.force
    /\ call.pre.accessToken # None
    /\ call.pre.expiry.k = "ts"
    /\ call.now < call.pre.expiry.t

\* The expiry a successful response stands for: its own, converted to UTC,
\* NaT when unparsable, now + 14 days when it names none.
ClaimedExpiry(call) ==
    LET raw == call.resp.expiryRaw
    IN  CASE raw.k = "ts" -> [k |-> "ts", t |-> raw.wall - raw.off]
          [] raw.k = "bad" -> [k |-> "nat", t |-> 0]
          [] OTHER -> [k |-> "ts", t |-> call.now + 14 * 24]

\* C1: with credentials set, a call with force=false makes no auth request,
\* returns the cached token and leaves the cache unchanged exactly when the
\* cache holds a token and now is before the cached expiry; every other call
\* makes exactly one auth request and, when that succeeds, leaves the cache
\* holding the response's token and expiry.
C1_TokenCachePolicy ==
    (cjCreds /\ lastCall.kind # "none") =>
        IF ClaimedHit(lastCall)
        THEN /\ lastCall.requests = 0
             /\ lastCall.kind = "returned"
             /\ lastCall.ret = lastCall.pre.accessToken
             /\ tokenCache = lastCall.pre
        ELSE /\ lastCall.requests = 1
             /\ lastCall.kind = "returned" =>
                    /\ tokenCache.accessToken = lastCall.resp.accessToken
                    /\ tokenCache.expiry = ClaimedExpiry(lastCall)
                    /\ lastCall.ret = lastCall.resp.accessToken
             /\ lastCall.kind = "raised" => tokenCache = lastCall.pre

\* C1 witness: a cached return at the very instant before which a refresh
\* would be due, after an earlier refresh and a clock advance.
C1_Witness ==
    /\ cjCreds
    /\ lastCall.kind = "returned"
    /\ lastCall.requests = 0
    /\ lastCall.now > 0
    /\ lastCall.pre.expiry.k = "ts"
    /\ lastCall.pre.expiry.t > lastCall.now

(***************************************************************************)
(* Two invocations of _cj_get_access_token(force=False) on the shared,     *)
(* unsynchronised cache.  Each subscript of _cj_token_cache is one read of *)
(* the dict; dict.update is one write.  Another thread may run between any *)
(* two of them.                                                            *)
(***************************************************************************)

Procs == {"A", "B"}

IdleProc == [pc |-> "idle", now |-> 0, exp |-> NoExpiry, resp |-> NoResp,
             ret |-> None, path |-> "none"]

\* A cache an earlier, sequential refresh left behind.
WarmCache == [accessToken |-> "tokA", expiry |-> Ts(12)]

\* line 121: now = pd.Timestamp.utcnow() (the credentials are set)
RaceStart(p) ==
    /\ procs[p].pc = "idle"
    /\ procs' = [procs EXCEPT ![p].pc = "readToken", ![p].now = clock]
    /\ UNCHANGED <<tokenCache, clock, cjCreds, raceHist, RaceFrame>>

\* line 124: _cj_token_cache["accessToken"]
RaceReadToken(p) ==
    /\ procs[p].pc = "readToken"
    /\ procs' = [procs EXCEPT ![p].pc =
                    IF TokenTruthy(tokenCache.accessToken) THEN "readExpiry" ELSE "post"]
    /\ UNCHANGED <<tokenCache, clock, cjCreds, raceHist, RaceFrame>>

\* line 125: _cj_token_cache["expiry"] is not None
RaceReadExpiry(p) ==
    /\ procs[p].pc = "readExpiry"
    /\ procs' = [procs EXCEPT ![p].pc =
                    IF ExpirySet(tokenCache.expiry) THEN "compare" ELSE "post"]
    /\ UNCHANGED <<tokenCache, clock, cjCreds, raceHist, RaceFrame>>

\* line 126: now < _cj_token_cache["expiry"]
RaceCompare(p) ==
    /\ procs[p].pc = "compare"
    /\ procs' = [procs EXCEPT ![p].exp = tokenCache.expiry,
                              ![p].pc = IF NowBefore(procs[p].now, tokenCache.expiry)
                                        THEN "returnCached" ELSE "post"]
    /\ UNCHANGED <<tokenCache, clock, cjCreds, raceHist, RaceFrame>>

\* line 128: return _cj_token_cache["accessToken"]
RaceReturnCached(p) ==
    /\ procs[p].pc = "returnCached"
    /\ procs' = [procs EXCEPT ![p].pc = "done", ![p].path = "cached",
                              ![p].ret = tokenCache.accessToken]
    /\ UNCHANGED <<tokenCache, clock, cjCreds, raceHist, RaceFrame>>

\* lines 130-133: the auth request, and the raise when it fails
RacePost(p) ==
    /\ procs[p].pc = "post"
    /\ \E resp \in AuthResponses :
          procs' = [procs EXCEPT ![p].resp = resp,
                                 ![p].pc = IF resp.ok THEN "update" ELSE "raised"]
    /\ raceHist' = [raceHist EXCEPT !.requests = @ + 1]
    /\ UNCHANGED <<tokenCache, clock, cjCreds, RaceFrame>>

\* lines 134-139: parse, _cj_token_cache.update(...), return token
RaceUpdate(p) ==
    /\ procs[p].pc = "update"
    /\ tokenCache' = CacheUpdate(procs[p].resp, procs[p].now)
    /\ procs' = [procs EXCEPT ![p].pc = "done", ![p].path = "refreshed",
                              ![p].ret = procs[p].resp.accessToken]
    /\ raceHist' = [raceHist EXCEPT !.written = @ \cup {tokenCache'}]
    /\ UNCHANGED <<clock, cjCreds, RaceFrame>>

\* Time passes while the invocations run.
RaceAdvanceClock ==
    /\ \E t \in Instants : t > clock /\ clock' = t
    /\ UNCHANGED <<tokenCache, cjCreds, procs, raceHist, RaceFrame>>

RaceInit ==
    /\ tokenCache \in {EmptyCache, WarmCache}
    /\ clock = 0
    /\ cjCreds = TRUE
    /\ lastCall = NoCall
    /\ procs = [p \in Procs |-> IdleProc]
    /\ raceHist = [cache0 |-> tokenCache, written |-> {}, requests |-> 0]
    /\ WalkIdle
    /\ DashIdle

RaceNext ==
    \/ \E p \in Procs :
          \/ RaceStart(p)
          \/ RaceReadToken(p)
          \/ RaceReadExpiry(p)
          \/ RaceCompare(p)
          \/ RaceReturnCached(p)
          \/ RacePost(p)
          \/ RaceUpdate(p)
    \/ RaceAdvanceClock

SpecRace == RaceInit /\ [][RaceNext]_vars

\* The token/expiry pairs that have been in the cache: the one the run
\* started with, when it held a token, and every pair a response wrote.
CachedPairs ==
    raceHist.written \cup (IF raceHist.cache0 = EmptyCache THEN {} ELSE {raceHist.cache0})

\* The fewest auth requests a run of the started invocations one after the
\* other makes: one when the cache the run started with is a miss for one
\* of them, else none.
SequentialRequests ==
    IF \E p \in Procs :
          /\ procs[p].pc # "idle"
          /\ ~(/\ raceHist.cache0.accessToken # None
               /\ raceHist.cache0.expiry.k = "ts"
               /\ procs[p].now < raceHist.cache0.expiry.t)
    THEN 1 ELSE 0

\* C9 as claimed: every invocation that returns from the cache returns a
\* non-empty token together with whose expiry it was checked unexpired, an
\* invocation that refreshes returns its own response's token, and the
\* interleaving costs at most one auth request more than a sequential run.
C9_RaceHarmless ==
    /\ \A p \in Procs :
          /\ (procs[p].pc = "done" /\ procs[p].path = "cached") =>
                /\ procs[p].ret # None
                /\ [accessToken |-> procs[p].ret, expiry |-> procs[p].exp] \in CachedPairs
                /\ procs[p].exp.k = "ts" /\ procs[p].now < procs[p].exp.t
          /\ (procs[p].pc = "done" /\ procs[p].path = "refreshed") =>
                procs[p].ret = procs[p].resp.accessToken
    /\ raceHist.requests <= SequentialRequests + 1

\* C9 as amended: a cached return passed the expiry check on some expiry
\* that was in the cache, and returns whatever token the cache holds when it
\* is read again afterwards: a token that was in the cache, not necessarily
\* the one that expiry belongs to (and empty only when a response that
\* carried no token was written meanwhile); a refresh returns its own
\* response's token; at most one auth request more than a sequential run.
C9_RaceOutcome ==
    /\ \A p \in Procs :
          /\ (procs[p].pc = "done" /\ procs[p].path = "cached") =>
                /\ procs[p].ret \in {c.accessToken : c \in CachedPairs}
                /\ procs[p].exp \in {c.expiry : c \in CachedPairs}
                /\ procs[p].exp.k = "ts" /\ procs[p].now < procs[p].exp.t
          /\ (procs[p].pc = "done" /\ procs[p].path = "refreshed") =>
                procs[p].ret = procs[p].resp.accessToken
    /\ raceHist.requests <= SequentialRequests + 1

\* C9 witness: one invocation returned from the cache a token that another
\* invocation's refresh wrote after the first had passed its expiry check.
C9_Witness ==
    \E p \in Procs, q \in Procs :
        /\ p # q
        /\ procs[p].pc = "done" /\ procs[p].path = "cached"
        /\ procs[q].pc = "done" /\ procs[q].path = "refreshed"
        /\ procs[p].ret = procs[q].ret
        /\ procs[p].exp = raceHist.cache0.expiry
        /\ procs[p].ret # raceHist.cache0.accessToken

(***************************************************************************)
(* fetch_cj_costs_by_day: the page walk over the CJ order listing.         *)
(* createDate instants are in seconds; a page item's fields are JSON null  *)
(* or a number.                                                            *)
(***************************************************************************)

SecondsPerDay == 86400

\* page_size = 100
PageSize == 100

\* a JSON field: null (or absent), or a number
Null == [k |-> "null", v |-> 0]
Num(v) == [k |-> "num", v |-> v]
NaN == [k |-> "nan", v |-> 0]

\* pd.to_numeric(x, errors="coerce")
ToNumeric(x) == IF x.k = "num" THEN x ELSE NaN

\* pd.isna / pd.notna
IsNa(x) == x.k # "num"

\* createDate of an item: missing, unparsable (NaT), or an instant
CreateDates ==
    {[k |-> "null", t |-> 0], [k |-> "nat", t |-> 0]}
    \cup {[k |-> "ts", t |-> t] :
            t \in {SecondsPerDay - 1, SecondsPerDay, 2 * SecondsPerDay - 1, 2 * SecondsPerDay}}

\* (orderAmount, productAmount, postageAmount) as the listing reports them
AmountTriples ==
    {<<Num(20), Num(12), Num(3)>>, <<Num(0), Num(12), Num(3)>>,
     <<Null, Num(12), Num(3)>>, <<Null, Null, Num(3)>>, <<Null, Null, Null>>}

WalkItems ==
    {[createDate |-> c, orderAmount |-> a[1], productAmount |-> a[2], postageAmount |-> a[3]] :
        c \in CreateDates, a \in AmountTriples}

\* the requested ranges (calendar days)
WalkRanges == {[start |-> 1, end |-> 1], [start |-> 1, end |-> 2]}

RECURSIVE SumSeq(_)
SumSeq(s) == IF s = <<>> THEN 0 ELSE Head(s) + SumSeq(Tail(s))

RECURSIVE SortedSeq(_)
\* the integers of S in ascending order
SortedSeq(S) ==
    IF S = {} THEN <<>>
    ELSE LET m == CHOOSE x \in S : \A y \in S : x <= y
         IN  <<m>> \o SortedSeq(S \ {m})

\* start_ts = pd.to_datetime(start_date, utc=True)
WalkStartTs(range) == range.start * SecondsPerDay

\* end_ts = pd.to_datetime(end_date, utc=True) + 1 day - 1 second
WalkEndTs(range) == range.end * SecondsPerDay + SecondsPerDay - 1

\* CjCost with orderAmount tested for truth instead of for NaN (a zero
\* orderAmount then falls through to the fallback)
CjCostTruthy(it) ==
    LET order_amt == ToNumeric(it.orderAmount)
        product_amt == ToNumeric(it.productAmount)
        postage_amt == ToNumeric(it.postageAmount)
    IN  IF ~IsNa(order_amt) /\ order_amt.v # 0 THEN order_amt.v
        ELSE (IF IsNa(product_amt) THEN 0 ELSE product_amt.v)
             + (IF IsNa(postage_amt) THEN 0 ELSE postage_amt.v)

\* lines 184-193: the cost of one order
CjCost(it) ==
    LET order_amt == ToNumeric(it.orderAmount)
        product_amt == ToNumeric(it.productAmount)
        postage_amt == ToNumeric(it.postageAmount)
    IN  IF ~IsNa(order_amt) THEN order_amt.v
        ELSE (IF IsNa(product_amt) THEN 0 ELSE product_amt.v)
             + (IF IsNa(postage_amt) THEN 0 ELSE postage_amt.v)

\* lines 177-183: the item has a parsable createDate within [start_ts, end_ts]
CjCounted(it, range) ==
    /\ it.createDate.k = "ts"
    /\ WalkStartTs(range) <= it.createDate.t
    /\ it.createDate.t <= WalkEndTs(range)

RECURSIVE CjPageRows(_, _)
\* lines 176-195: the rows one page adds, in item order
CjPageRows(items, range) ==
    IF items = <<>> THEN <<>>
    ELSE (IF CjCounted(Head(items), range)
          THEN <<[date |-> Head(items).createDate.t \div SecondsPerDay,
                  cj_cost |-> CjCost(Head(items))]>>
          ELSE <<>>)
         \o CjPageRows(Tail(items), range)

\* the cj_cost of the rows of one date, in row order
RowsOfDate(rows, d) ==
    LET sel == SelectSeq(rows, LAMBDA r : r.date = d)
    IN  [i \in 1..Len(sel) |-> sel[i].cj_cost]

\* lines 202-207: pd.DataFrame(rows).groupby("date", as_index=False)["cj_cost"].sum()
\* and its total; an empty frame and 0.0 when there are no rows
CjResult(rows) ==
    LET dates == SortedSeq({rows[i].date : i \in 1..Len(rows)})
        df == [i \in 1..Len(dates) |->
                 [date |-> dates[i], cj_cost |-> SumSeq(RowsOfDate(rows, dates[i]))]]
    IN  [df |-> df, total |-> SumSeq([i \in 1..Len(df) |-> df[i].cj_cost]), meta |-> {}]

NoResult == [df |-> <<>>, total |-> 0, meta |-> {}]

\* The model's bounds on the listing server: how many pages it serves at
\* most, and how many items over all pages.
MaxPages == 3
MaxItems == 2

RECURSIVE SeqsUpTo(_, _)
\* the sequences over S of length at most n
SeqsUpTo(S, n) ==
    IF n = 0 THEN {<<>>}
    ELSE LET shorter == SeqsUpTo(S, n - 1)
         IN  shorter \cup {Append(s, x) : s \in {t \in shorter : Len(t) = n - 1}, x \in S}

\* What the listing endpoint may answer for page page_num: a failure, or a
\* list and a total (absent, reached by this page, or not reached).
PageResponses(page_num, room) ==
    {[ok |-> FALSE, list |-> <<>>, total |-> 0]}
    \cup {[ok |-> TRUE, list |-> l, total |-> t] :
            l \in SeqsUpTo(WalkItems, room),
            t \in {0, page_num * PageSize, page_num * PageSize + 1}}

\* One trip round the while loop (lines 170-200): fetch_cj_orders_list with
\* the token call of _cj_headers, the items of the page, the exit test; and,
\* on leaving the loop, lines 202-207.
WalkFetchPage ==
    /\ walkPc = "fetch"
    /\ walkRequests < MaxPages
    /\ \E resp \in AuthAnswers(tokenCache, clock, cjCreds, FALSE),
          page \in PageResponses(pageNum, MaxItems - Len(walkFetched)) :
        LET o == TokenOutcome(tokenCache, clock, cjCreds, FALSE, resp)
            rows == walkRows \o CjPageRows(page.list, walkRange)
        IN  /\ tokenCache' = o.cache
            /\ IF o.kind = "raised" THEN
                    /\ walkPc' = "raised"
                    /\ UNCHANGED <<pageNum, walkRows, walkFetched, walkRequests, walkResult>>
               ELSE IF ~page.ok THEN
                    /\ walkPc' = "raised"
                    /\ walkRequests' = walkRequests + 1
                    /\ UNCHANGED <<pageNum, walkRows, walkFetched, walkResult>>
               ELSE
                    /\ walkRequests' = walkRequests + 1
                    /\ walkFetched' = walkFetched \o page.list
                    /\ IF page.list = <<>> THEN
                            /\ walkPc' = "done"
                            /\ walkResult' = CjResult(walkRows)
                            /\ UNCHANGED <<pageNum, walkRows>>
                       ELSE IF pageNum * PageSize >= page.total THEN
                            /\ walkPc' = "done"
                            /\ walkRows' = rows
                            /\ walkResult' = CjResult(rows)
                            /\ UNCHANGED pageNum
                       ELSE
                            /\ walkPc' = "fetch"
                            /\ walkRows' = rows
                            /\ pageNum' = pageNum + 1
                            /\ UNCHANGED walkResult
    /\ UNCHANGED <<clock, cjCreds, lastCall, walkRange, WalkFrame>>

WalkInit ==
    /\ tokenCache = WarmCache
    /\ clock = 0
    /\ cjCreds \in BOOLEAN
    /\ lastCall = NoCall
    /\ RaceIdle
    /\ walkPc = "fetch"
    /\ walkRange \in WalkRanges
    /\ pageNum = 1
    /\ walkRows = <<>>
    /\ walkFetched = <<>>
    /\ walkRequests = 0
    /\ walkResult = NoResult
    /\ DashIdle

WalkNext == WalkFetchPage

SpecWalk == WalkInit /\ [][WalkNext]_vars

\* The most listing pages one invocation is to fetch: the dashboard's notice
\* for a truncated walk says "only first page fetched".
ListingPageCap == 1

\* C5: one invocation fetches at most a fixed cap of listing pages whatever
\* the server answers: once the cap is reached the walk has stopped (with its
\* result marked truncated) instead of asking for another page.
C5_PagesCapped ==
    /\ walkRequests <= ListingPageCap
    /\ walkRequests = ListingPageCap => walkPc # "fetch"

\* The claim's own reading of the cost of one order.
ClaimedCost(it) ==
    IF it.orderAmount.k = "num" THEN it.orderAmount.v
    ELSE (IF it.productAmount.k = "num" THEN it.productAmount.v ELSE 0)
         + (IF it.postageAmount.k = "num" THEN it.postageAmount.v ELSE 0)

\* createDate lies in [start 00:00:00, end 23:59:59]
ClaimedInRange(it, range) ==
    /\ it.createDate.k = "ts"
    /\ it.createDate.t >= range.start * 86400
    /\ it.createDate.t <= range.end * 86400 + 23 * 3600 + 59 * 60 + 59

\* the served orders that lie in the range, in the order served
ClaimedCounted == SelectSeq(walkFetched, LAMBDA it : ClaimedInRange(it, walkRange))

\* C7: every counted order costs its orderAmount when that is present (zero
\* included), else productAmount + postageAmount with an absent one as zero,
\* and the returned total is the sum of these costs over exactly the served
\* orders whose createDate lies in [start 00:00:00, end 23:59:59].
C7_CostFallback ==
    walkPc = "done" =>
        /\ Len(walkRows) = Len(ClaimedCounted)
        /\ \A i \in 1..Len(walkRows) : walkRows[i].cj_cost = ClaimedCost(ClaimedCounted[i])
        /\ walkResult.total = SumSeq([i \in 1..Len(ClaimedCounted) |-> ClaimedCost(ClaimedCounted[i])])

\* C7 witness: a finished walk over two pages that counted an order with
\* orderAmount zero and an order without orderAmount.
C7_Witness ==
    /\ walkPc = "done"
    /\ pageNum = 2
    /\ \E i \in 1..Len(ClaimedCounted) :
          ClaimedCounted[i].orderAmount = Num(0) /\ ClaimedCounted[i].productAmount = Num(12)
    /\ \E i \in 1..Len(ClaimedCounted) :
          ClaimedCounted[i].orderAmount = Null /\ ClaimedCounted[i].productAmount = Num(12)
    /\ walkResult.total = 15

(***************************************************************************)
(* build_sales_aggregates.  A timestamp, naive or zone-aware, is the UTC   *)
(* instant it stands for, in hours; an ISO date string is the day it       *)
(* names.  LOCAL_TZ is taken at its standard offset, UTC-5.                *)
(***************************************************************************)

\* LOCAL_TZ = "America/New_York": hours behind UTC
UtcOffsetHours == 5

\* pd.Timestamp(day).tz_localize(LOCAL_TZ): local midnight of a day
LocalMidnight(d) == d * 24 + UtcOffsetHours

\* .date() of a timestamp in LOCAL_TZ
LocalDate(ts) == (ts - UtcOffsetHours) \div 24

\* .dt.hour of a timestamp in LOCAL_TZ
LocalHour(ts) == (ts - UtcOffsetHours) % 24

\* d.tz_convert(None).date(): the date of the instant in UTC
UtcDate(ts) == ts \div 24

\* .dt.dayofweek, Monday = 0
DayOfWeek(d) == d % 7

DowLabels == <<"Mon", "Tue", "Wed", "Thu", "Fri", "Sat", "Sun">>

\* dow_map
DowMap(n) == DowLabels[n + 1]

\* DateIndex without the end day (a range taken half-open)
DateIndexHalfOpen(start_dt, end_dt) ==
    [i \in 1..(end_dt - start_dt) |-> LocalMidnight(start_dt + i - 1)]

\* lines 60-62: pd.date_range(start_ts, end_ts, freq="D"), one local midnight
\* per calendar day, empty when end is before start
DateIndex(start_dt, end_dt) ==
    [i \in 1..(end_dt - start_dt + 1) |-> LocalMidnight(start_dt + i - 1)]

\* lines 39-44: the column a basis selects
BasisColumn(basis) ==
    IF basis = "subtotal_price" THEN "subtotal_price"
    ELSE IF basis = "line_items" THEN "total_line_items_price"
    ELSE "total_price"

\* lines 46-50 for one order: to_numeric(..., errors="coerce"), NaN as 0.0
\* (a column no order carries gives 0.0 as well)
AmountOf(order, basis) ==
    LET x == ToNumeric(order[BasisColumn(basis)])
    IN  IF IsNa(x) THEN 0 ELSE x.v

\* the amounts of the orders that satisfy Test, in order
AmountsWhere(orders_df, basis, Test(_)) ==
    LET sel == SelectSeq(orders_df, Test)
    IN  [i \in 1..Len(sel) |-> AmountOf(sel[i], basis)]

\* lines 80-84: set_index("_created_local")["_amount"].sort_index()
\* .resample("D").sum(): one bin per local day from the first order's day to
\* the last order's, labelled by its local midnight
Resampled(orders_df, basis) ==
    LET days == {LocalDate(orders_df[i].created_at) : i \in 1..Len(orders_df)}
        first == CHOOSE d \in days : \A e \in days : d <= e
        last == CHOOSE d \in days : \A e \in days : d >= e
    IN  [ts \in {LocalMidnight(d) : d \in first..last} |->
            SumSeq(AmountsWhere(orders_df, basis,
                                LAMBDA o : LocalMidnight(LocalDate(o.created_at)) = ts))]

\* line 85: .reindex(date_index, fill_value=0.0)
Reindex(series, index, fill) ==
    [i \in 1..Len(index) |-> IF index[i] \in DOMAIN series THEN series[index[i]] ELSE fill]

\* a mean, kept exact: the sum and the count
Mean(values) == [num |-> SumSeq(values), den |-> Len(values)]
Zero == [num |-> 0, den |-> 1]

\* lines 91-102: the mean of the daily totals per weekday present in the
\* index, in weekday order
AvgByDow(date_index, daily_sales) ==
    LET dow_num(i) == DayOfWeek(LocalDate(date_index[i]))
        nums == SortedSeq({dow_num(i) : i \in 1..Len(date_index)})
        salesOf(n) ==
            LET idx == SortedSeq({i \in 1..Len(date_index) : dow_num(i) = n})
            IN  [j \in 1..Len(idx) |-> daily_sales[idx[j]]]
    IN  [labels |-> [j \in 1..Len(nums) |-> DowMap(nums[j])],
         values |-> [j \in 1..Len(nums) |-> Mean(salesOf(nums[j]))]]

\* lines 105-112: the mean order amount per local hour, all 24 hours present
AvgByHour(orders_df, basis) ==
    LET amounts(h) == AmountsWhere(orders_df, basis, LAMBDA o : LocalHour(o.created_at) = h)
    IN  [hours |-> [j \in 1..24 |-> j - 1],
         values |-> [j \in 1..24 |->
                        IF amounts(j - 1) = <<>> THEN Zero ELSE Mean(amounts(j - 1))]]

\* build_sales_aggregates(orders_df, basis, start_dt, end_dt); orders_df is
\* <<>> for None and for an empty frame
BuildSalesAggregates(orders_df, basis, start_dt, end_dt) ==
    LET date_index == DateIndex(start_dt, end_dt)
    IN  IF orders_df = <<>> THEN
            [daily |-> [dates |-> [i \in 1..Len(date_index) |-> LocalDate(date_index[i])],
                        values |-> [i \in 1..Len(date_index) |-> 0]],
             dow |-> [labels |-> DowLabels, values |-> [j \in 1..7 |-> Zero]],
             hour |-> [hours |-> [j \in 1..24 |-> j - 1], values |-> [j \in 1..24 |-> Zero]]]
        ELSE
            LET daily_sales == Reindex(Resampled(orders_df, basis), date_index, 0)
            IN  [daily |-> [dates |-> [i \in 1..Len(date_index) |-> UtcDate(date_index[i])],
                            values |-> daily_sales],
                 dow |-> AvgByDow(date_index, daily_sales),
                 hour |-> AvgByHour(orders_df, basis)]

Bases == {"total_price", "subtotal_price", "line_items"}

\* The model's bounds on a direct call: the last day a range may name and
\* the most orders in the frame.
MaxDay == 8
MaxOrders == 2

\* total_price, subtotal_price, total_line_items_price of an order
PriceTriples == {<<Num(10), Num(8), Num(7)>>, <<Num(4), Null, Num(4)>>}

Order(h, p) ==
    [created_at |-> h, total_price |-> p[1], subtotal_price |-> p[2],
     total_line_items_price |-> p[3]]

\* created_at instants around the local and UTC day boundaries of day 1, on
\* a later day of the same weekday, and outside any range
AggOrders ==
    {Order(h, p) : h \in {0 - 30, 24, 29, 52, 53, 8 * 24 + 12, 11 * 24}, p \in PriceTriples}

\* the frames over S of at most n orders, one per combination
RECURSIVE Frames(_, _)
Frames(S, n) ==
    IF n = 0 \/ S = {} THEN {<<>>}
    ELSE LET x == CHOOSE y \in S : TRUE
         IN  Frames(S \ {x}, n) \cup {<<x>> \o f : f \in Frames(S, n - 1) \cup {<<>>}}

\* One direct call of build_sales_aggregates.
AggCall ==
    /\ dashPc = "call"
    /\ charts' = BuildSalesAggregates(ordersDf, dashReq.basis, dashReq.start, dashReq.end)
    /\ dashPc' = "returned"
    /\ UNCHANGED <<dashReq, ordersDf, dashEnv, dashLocals, kpis, tableRows, flashes, AggFrame>>

AggInit ==
    /\ tokenCache = EmptyCache
    /\ clock = 0
    /\ cjCreds = TRUE
    /\ lastCall = NoCall
    /\ RaceIdle
    /\ WalkIdle
    /\ dashPc = "call"
    /\ dashReq \in {[start |-> s, end |-> e, basis |-> b] :
                        s \in 1..MaxDay, e \in 1..MaxDay, b \in Bases}
    /\ dashReq.start <= dashReq.end
    /\ ordersDf \in Frames(AggOrders, MaxOrders)
    /\ charts = <<>>
    /\ dashEnv = <<>>
    /\ dashLocals = <<>>
    /\ kpis = <<>>
    /\ tableRows = <<>>
    /\ flashes = <<>>

AggNext == AggCall

SpecAgg == AggInit /\ [][AggNext]_vars

\* The claim's own reading of the local calendar day of an instant: the day
\* whose local midnight (05:00 UTC) is the last at or before it.
ClaimedLocalDay(h) ==
    CHOOSE d \in (0 - 3)..(MaxDay + 4) : d * 24 + 5 <= h /\ h < (d + 1) * 24 + 5

\* the amount of an order under the basis of the request
ClaimedAmount(o) ==
    LET f == CASE dashReq.basis = "subtotal_price" -> o.subtotal_price
               [] dashReq.basis = "line_items" -> o.total_line_items_price
               [] OTHER -> o.total_price
    IN  IF f.k = "num" THEN f.v ELSE 0

\* the sum of the amounts of the orders of the frame created on local day d
ClaimedDayTotal(d) ==
    LET sel == SelectSeq(ordersDf, LAMBDA o : ClaimedLocalDay(o.created_at) = d)
    IN  SumSeq([i \in 1..Len(sel) |-> ClaimedAmount(sel[i])])

\* C2: for every range start <= end and every order set, the daily series
\* has (end - start).days + 1 entries, one per calendar day of [start, end]
\* in ascending order, each valued the total of that day's orders, so zero
\* on a day with none.
C2_DailySeriesComplete ==
    dashPc = "returned" =>
        LET n == dashReq.end - dashReq.start + 1
        IN  /\ Len(charts.daily.dates) = n
            /\ Len(charts.daily.values) = n
            /\ \A i \in 1..n :
                  /\ charts.daily.dates[i] = dashReq.start + i - 1
                  /\ charts.daily.values[i] = ClaimedDayTotal(dashReq.start + i - 1)

\* C2 witness: a call whose frame holds an order inside the range and one
\* outside it, and whose range has a day without orders.
C2_Witness ==
    /\ dashPc = "returned"
    /\ dashReq.end - dashReq.start >= 2
    /\ \E i \in 1..Len(ordersDf) : ClaimedLocalDay(ordersDf[i].created_at) > dashReq.end
    /\ \E i \in 1..Len(charts.daily.values) : charts.daily.values[i] > 0
    /\ \E i \in 1..Len(charts.daily.values) : charts.daily.values[i] = 0

\* the daily totals of the range days that fall on weekday n (Monday = 0)
ClaimedWeekdayTotals(n) ==
    LET days == SortedSeq({d \in dashReq.start..dashReq.end : d % 7 = n})
    IN  [j \in 1..Len(days) |-> ClaimedDayTotal(days[j])]

\* C8: for every order set and every range, short ones included, the weekday
\* output has exactly seven entries labelled Mon..Sun in that order, each the
\* mean of the zero-filled daily totals of the range days on that weekday.
C8_SevenWeekdays ==
    dashPc = "returned" =>
        /\ charts.dow.labels = <<"Mon", "Tue", "Wed", "Thu", "Fri", "Sat", "Sun">>
        /\ Len(charts.dow.values) = 7
        /\ \A n \in 0..6 :
              LET totals == ClaimedWeekdayTotals(n)
                  v == charts.dow.values[n + 1]
              IN  IF totals = <<>> THEN v.num = 0
                  ELSE v.num * Len(totals) = SumSeq(totals) * v.den

(***************************************************************************)
(* The dashboard handler (GET): the three fetches, the metrics, the        *)
(* charts, the daily table and the notices, all inside one try/except.     *)
(***************************************************************************)

\* lines 37-38: created_at_min and created_at_max, the date-only inputs
\* localized to UTC (midnight of start and midnight of end)
CreatedAtMin(start_date) == start_date * 24
CreatedAtMax(end_date) == end_date * 24

\* lines 34-62: the orders the listing serves for these bounds, all pages
ShopifyListing(shop, start_date, end_date) ==
    SelectSeq(shop, LAMBDA o : /\ CreatedAtMin(start_date) <= o.created_at
                               /\ o.created_at <= CreatedAtMax(end_date))

\* lines 64-75: 0.0 for an empty frame, else the sum of the basis column,
\* NaN skipped
ShopifyTotal(orders, revenue_basis) ==
    SumSeq([i \in 1..Len(orders) |-> AmountOf(orders[i], revenue_basis)])

\* lines 100-106: date and fb_spend of each insights row, and the total
FbResult(data) ==
    LET df == [i \in 1..Len(data) |->
                 [date |-> data[i].date_start,
                  fb_spend |-> IF IsNa(ToNumeric(data[i].spend)) THEN 0
                               ELSE ToNumeric(data[i].spend).v]]
    IN  [total |-> SumSeq([i \in 1..Len(df) |-> df[i].fb_spend]), df |-> df]

\* a ratio, kept exact, or None
NoRatio == [k |-> "none", num |-> 0, den |-> 1]
Ratio(n, d) == [k |-> "num", num |-> n, den |-> d]

\* line 157
Roas(sales_total, ad_spend_total) ==
    IF ad_spend_total > 0 THEN Ratio(sales_total, ad_spend_total) ELSE NoRatio

\* Roi taken over the ad spend alone
RoiOverSpend(sales_total, ad_spend_total, cogs_total) ==
    LET profit == sales_total - (ad_spend_total + cogs_total)
    IN  IF ad_spend_total > 0 THEN Ratio(profit, ad_spend_total) ELSE NoRatio

\* lines 158-160
Roi(sales_total, ad_spend_total, cogs_total) ==
    LET profit == sales_total - (ad_spend_total + cogs_total)
        denom == ad_spend_total + cogs_total
    IN  IF denom > 0 THEN Ratio(profit, denom) ELSE NoRatio

\* money(x): the amount as it is shown
Money(x) == [k |-> "money", amount |-> x]

\* pct(x), f"{float(x)*100:,.1f}%": the ratio in tenths of a percent, rounded
\* to the nearest
Pct(x) == [k |-> "pct", tenths |-> (2000 * x.num + x.den) \div (2 * x.den)]

\* the marker shown for a ratio that is None
Dash == [k |-> "dash", tenths |-> 0]

\* lines 162-169
Kpis(sales_total, ad_spend_total, cogs_total) ==
    LET roas == Roas(sales_total, ad_spend_total)
        roi == Roi(sales_total, ad_spend_total, cogs_total)
    IN  [sales_total |-> Money(sales_total),
         ad_spend_total |-> Money(ad_spend_total),
         cogs_total |-> Money(cogs_total),
         profit |-> Money(sales_total - (ad_spend_total + cogs_total)),
         roi |-> IF roi.k # "none" THEN Pct(roi) ELSE Dash,
         roas |-> IF roas.k # "none" THEN Pct(roas) ELSE Dash]

\* one row of the merged frame
LedgerRow(d, sales, fb, cj) ==
    [date |-> d, shopify_sales |-> sales, fb_spend |-> fb, cj_cost |-> cj]

RECURSIVE Flatten(_)
Flatten(ss) == IF ss = <<>> THEN <<>> ELSE Head(ss) \o Flatten(Tail(ss))

\* MergeLeft as an inner join: a left row without a match is dropped
MergeInner(left, right, col) ==
    Flatten([i \in 1..Len(left) |->
        LET m == SelectSeq(right, LAMBDA r : r.date = left[i].date)
        IN  [j \in 1..Len(m) |-> [left[i] EXCEPT ![col] = Num(m[j][col])]]])

\* left.merge(right, on="date", how="left"): per left row, one row per right
\* row of that date, or one row with NaN when there is none
MergeLeft(left, right, col) ==
    Flatten([i \in 1..Len(left) |->
        LET m == SelectSeq(right, LAMBDA r : r.date = left[i].date)
        IN  IF m = <<>> THEN <<[left[i] EXCEPT ![col] = NaN]>>
            ELSE [j \in 1..Len(m) |-> [left[i] EXCEPT ![col] = Num(m[j][col])]]])

RECURSIVE SortByDate(_)
\* .sort_values("date")
SortByDate(rows) ==
    IF rows = <<>> THEN <<>>
    ELSE LET m == CHOOSE i \in 1..Len(rows) :
                    \A j \in 1..Len(rows) :
                        rows[i].date < rows[j].date \/ (rows[i].date = rows[j].date /\ i <= j)
         IN  <<rows[m]>> \o SortByDate(SubSeq(rows, 1, m - 1) \o SubSeq(rows, m + 1, Len(rows)))

\* lines 174-196: the daily table
Ledger(daily, fb_daily, cj_daily) ==
    LET sales_daily == [i \in 1..Len(daily.dates) |->
                          LedgerRow(daily.dates[i], daily.values[i], NaN, NaN)]
        merged == MergeLeft(MergeLeft(sales_daily, fb_daily, "fb_spend"), cj_daily, "cj_cost")
        filled == [i \in 1..Len(merged) |->
                     [merged[i] EXCEPT !.fb_spend = IF IsNa(@) THEN 0 ELSE @.v,
                                       !.cj_cost = IF IsNa(@) THEN 0 ELSE @.v]]
        sorted == SortByDate(filled)
    IN  [i \in 1..Len(sorted) |->
            [date |-> sorted[i].date,
             shopify_sales |-> sorted[i].shopify_sales,
             fb_spend |-> sorted[i].fb_spend,
             cj_cost |-> sorted[i].cj_cost,
             net |-> sorted[i].shopify_sales - (sorted[i].fb_spend + sorted[i].cj_cost)]]

\* lines 207-208: the except clause; kpis, charts and table_rows stay as
\* they were initialised
DashRaise(source) ==
    /\ flashes' = Append(flashes, [source |-> source, category |-> "danger"])
    /\ dashPc' = "rendered"

\* line 145: fetch_shopify_sales_total
DashFetchShopify ==
    /\ dashPc = "shopify"
    /\ \E ok \in BOOLEAN :
          IF ~dashEnv.shopCreds \/ ~ok THEN
              /\ DashRaise("shopify")
              /\ UNCHANGED <<ordersDf, dashLocals>>
          ELSE
              LET orders == ShopifyListing(dashEnv.shop, dashReq.start, dashReq.end)
              IN  /\ ordersDf' = orders
                  /\ dashLocals' = [dashLocals EXCEPT
                          !.sales_total = ShopifyTotal(orders, dashReq.basis),
                          !.fetched = @ \cup {"shopify"}]
                  /\ dashPc' = "fb"
                  /\ UNCHANGED flashes
    /\ UNCHANGED <<dashReq, dashEnv, charts, kpis, tableRows, DashFrame>>

\* the insights rows the ad platform may answer with: at most one row per
\* day, a spend or none
FbDatas ==
    {SelectSeq(<<[date_start |-> 1, spend |-> a], [date_start |-> 2, spend |-> b]>>,
               LAMBDA r : r.spend # NaN) :
        a \in {NaN, Null, Num(5), Num(0 - 5)}, b \in {NaN, Num(5)}}

\* line 146: fetch_fb_ad_spend_total
DashFetchFb ==
    /\ dashPc = "fb"
    /\ \E ok \in BOOLEAN, data \in FbDatas :
          IF ~dashEnv.fbCreds \/ ~ok THEN
              /\ DashRaise("fb")
              /\ UNCHANGED dashLocals
          ELSE
              /\ dashLocals' = [dashLocals EXCEPT
                      !.ad_spend_total = FbResult(data).total,
                      !.fb_daily = FbResult(data).df,
                      !.fetched = @ \cup {"fb"}]
              /\ dashPc' = "cj"
              /\ UNCHANGED flashes
    /\ UNCHANGED <<dashReq, dashEnv, ordersDf, charts, kpis, tableRows, DashFrame>>

\* the listings the CJ endpoint may serve here: one page that holds them all
DashListings ==
    SeqsUpTo({[createDate |-> [k |-> "ts", t |-> t], orderAmount |-> a,
               productAmount |-> Num(12), postageAmount |-> Null] :
                 t \in {SecondsPerDay, 3 * SecondsPerDay - 1}, a \in {Num(20), Null, Num(0 - 30)}}, 1)

\* lines 149-154: fetch_cj_costs_by_day(start, end, use_cache=True) raises
\* TypeError (the function takes no use_cache), so the two-argument call
\* runs and cj_meta is {}
DashFetchCj ==
    /\ dashPc = "cj"
    /\ \E resp \in AuthAnswers(tokenCache, clock, cjCreds, FALSE),
          ok \in BOOLEAN, list \in DashListings :
          LET o == TokenOutcome(tokenCache, clock, cjCreds, FALSE, resp)
              res == CjResult(CjPageRows(list, dashReq))
          IN  /\ tokenCache' = o.cache
              /\ IF o.kind = "raised" \/ ~ok THEN
                      /\ DashRaise("cj")
                      /\ UNCHANGED dashLocals
                 ELSE
                      /\ dashLocals' = [dashLocals EXCEPT
                              !.cj_daily = res.df,
                              !.cogs_total = res.total,
                              !.cj_meta = {},
                              !.fetched = @ \cup {"cj"}]
                      /\ dashPc' = "compute"
                      /\ UNCHANGED flashes
    /\ UNCHANGED <<dashReq, dashEnv, ordersDf, charts, kpis, tableRows,
                   clock, cjCreds, lastCall, raceVars, walkVars>>

\* lines 156-205: metrics, charts, table and the CJ notices
DashCompute ==
    /\ dashPc = "compute"
    /\ kpis' = Kpis(dashLocals.sales_total, dashLocals.ad_spend_total, dashLocals.cogs_total)
    /\ dashLocals' = [dashLocals EXCEPT
            !.roas = Roas(dashLocals.sales_total, dashLocals.ad_spend_total),
            !.roi = Roi(dashLocals.sales_total, dashLocals.ad_spend_total,
                        dashLocals.cogs_total)]
    /\ charts' = BuildSalesAggregates(ordersDf, dashReq.basis, dashReq.start, dashReq.end)
    /\ tableRows' = Ledger(charts'.daily, dashLocals.fb_daily, dashLocals.cj_daily)
    /\ flashes' = flashes
                    \o (IF "error" \in dashLocals.cj_meta
                        THEN <<[source |-> "cj", category |-> "warning"]>>
                        ELSE (IF "cache" \in dashLocals.cj_meta
                              THEN <<[source |-> "cj", category |-> "info"]>> ELSE <<>>)
                             \o (IF "truncated" \in dashLocals.cj_meta
                                 THEN <<[source |-> "cj", category |-> "warning"]>> ELSE <<>>))
    /\ dashPc' = "rendered"
    /\ UNCHANGED <<dashReq, dashEnv, ordersDf, DashFrame>>

\* The model's bound on the orders the store holds.
MaxStoreOrders == 2

\* orders created around the UTC and local boundaries of days 1 and 2
StoreOrders == {Order(h, p) : h \in {24, 29, 48, 52}, p \in PriceTriples}

NoLocals ==
    [sales_total |-> 0, ad_spend_total |-> 0, fb_daily |-> <<>>, cj_daily |-> <<>>,
     cogs_total |-> 0, cj_meta |-> {}, roas |-> NoRatio, roi |-> NoRatio, fetched |-> {}]

DashInit ==
    /\ tokenCache = WarmCache
    /\ clock = 0
    /\ cjCreds \in BOOLEAN
    /\ lastCall = NoCall
    /\ RaceIdle
    /\ WalkIdle
    /\ dashPc = "shopify"
    /\ dashReq \in {[start |-> 1, end |-> e, basis |-> b] : e \in {1, 2}, b \in Bases}
    /\ dashEnv \in {[shopCreds |-> sc, fbCreds |-> fc, shop |-> sh] :
                        sc \in BOOLEAN, fc \in BOOLEAN,
                        sh \in Frames(StoreOrders, MaxStoreOrders)}
    /\ ordersDf = <<>>
    /\ charts = <<>>
    /\ dashLocals = NoLocals
    /\ kpis = <<>>
    /\ tableRows = <<>>
    /\ flashes = <<>>

DashNext ==
    \/ DashFetchShopify
    \/ DashFetchFb
    \/ DashFetchCj
    \/ DashCompute

SpecDash == DashInit /\ [][DashNext]_vars

\* the handler got through all three fetches and rendered its results
DashSucceeded == dashPc = "rendered" /\ dashLocals.fetched = {"shopify", "fb", "cj"}

\* the value a daily series has for day d, zero when it has no entry
ClaimedEntry(series, col, d) ==
    IF \E i \in 1..Len(series) : series[i].date = d
    THEN series[CHOOSE i \in 1..Len(series) : series[i].date = d][col]
    ELSE 0

\* C3: on success the ledger has exactly one row per date of the daily sales
\* series, the full requested range in ascending order; fb_spend and cj_cost
\* are the values of the ad-spend and fulfillment-cost series for that date,
\* zero where a series has no entry; net = shopify_sales - (fb_spend + cj_cost).
C3_LedgerComplete ==
    DashSucceeded =>
        /\ Len(tableRows) = dashReq.end - dashReq.start + 1
        /\ \A i \in 1..Len(tableRows) :
              LET row == tableRows[i]
              IN  /\ row.date = dashReq.start + i - 1
                  /\ row.date = charts.daily.dates[i]
                  /\ row.shopify_sales = charts.daily.values[i]
                  /\ row.fb_spend = ClaimedEntry(dashLocals.fb_daily, "fb_spend", row.date)
                  /\ row.cj_cost = ClaimedEntry(dashLocals.cj_daily, "cj_cost", row.date)
                  /\ row.net = row.shopify_sales - (row.fb_spend + row.cj_cost)

\* C3 witness: a two-day ledger with an ad-spend entry on one day only, a
\* fulfillment cost on the other only, and sales.
C3_Witness ==
    /\ DashSucceeded
    /\ Len(tableRows) = 2
    /\ tableRows[1].fb_spend = 0 /\ tableRows[2].fb_spend = 5
    /\ tableRows[1].cj_cost = 20 /\ tableRows[2].cj_cost = 0
    /\ tableRows[1].shopify_sales > 0
    /\ Len(dashLocals.fb_daily) = 1 /\ Len(dashLocals.cj_daily) = 1

\* C4: when one source's fetch fails the invocation still completes with a
\* notice for it, and what the sources fetched before it gave is still
\* produced (metrics and charts) instead of the whole result being empty.
C4_FailureIsolated ==
    (dashPc = "rendered" /\ dashLocals.fetched # {"shopify", "fb", "cj"}) =>
        /\ flashes # <<>>
        /\ "shopify" \in dashLocals.fetched => (kpis # <<>> /\ charts # <<>>)

\* C6: ROAS is the not-applicable marker exactly when the ad spend total is
\* zero or negative and otherwise is sales_total / spend_total; ROI is the
\* marker exactly when spend_total + cost_total is zero or negative and
\* otherwise is (sales_total - (spend_total + cost_total)) divided by it.
\* The number shown is the ratio in tenths of a percent, to the nearest.
C6_RatiosGuarded ==
    DashSucceeded =>
        LET S == dashLocals.sales_total
            A == dashLocals.ad_spend_total
            D == dashLocals.ad_spend_total + dashLocals.cogs_total
            roas == dashLocals.roas
            roi == dashLocals.roi
            Near(shown, n, d) ==
                /\ shown.k = "pct"
                /\ 2 * (shown.tenths * d - 1000 * n) <= d
                /\ 2 * (1000 * n - shown.tenths * d) <= d
        IN  /\ (roas.k = "none") <=> (A <= 0)
            /\ (kpis.roas.k = "dash") <=> (A <= 0)
            /\ A > 0 => (roas.num * A = S * roas.den /\ Near(kpis.roas, S, A))
            /\ (roi.k = "none") <=> (D <= 0)
            /\ (kpis.roi.k = "dash") <=> (D <= 0)
            /\ D > 0 => (roi.num * D = (S - D) * roi.den /\ Near(kpis.roi, S - D, D))

\* C6 witness: ad spend total zero with a fulfillment cost, so ROAS is the
\* marker and ROI a number, here a negative one.
C6_Witness ==
    /\ DashSucceeded
    /\ dashLocals.ad_spend_total = 0
    /\ dashLocals.cogs_total > dashLocals.sales_total
    /\ dashLocals.sales_total > 0
    /\ kpis.roas.k = "dash"
    /\ kpis.roi.k = "pct" /\ kpis.roi.tenths < 0

\* C10: on success every order counted in the sales total is counted in
\* exactly one day of the daily series, so the shopify_sales column of the
\* ledger sums to the sales total reported.
C10_LedgerReconciles ==
    DashSucceeded =>
        SumSeq([i \in 1..Len(tableRows) |-> tableRows[i].shopify_sales])
            = dashLocals.sales_total

====
